---- MODULE Spec2Model ----
(***************************************************************************)
(* MARWILTorchPolicy (rllib/algorithms/marwil/marwil_torch_policy.py):     *)
(* the loss, the statistics and the moving average of the squared          *)
(* advantage norm that the policy carries from one loss call to the next.  *)
(*                                                                         *)
(* Numbers.  The tensors of the source are float32 and every operation on *)
(* them rounds as float32 does.  The values of the config and the literals *)
(* are Python floats: compared and multiplied with each other as doubles,  *)
(* taken at the tensor's type where they meet a tensor.  torch.exp is the  *)
(* linked library's, whose last bit is not the same in every build.        *)
(***************************************************************************)
EXTENDS Integers, Sequences, FiniteSets, TLC

(***************************************************************************)
(* float32.  A number is a record [kind, sign, man, exp]: kind "fin" is    *)
(* (-1)^sign * man * 2^exp with man < 2^24 and EMin <= exp <= EMax, man    *)
(* >= 2^23 unless exp = EMin (subnormals and the two zeros); "inf" with    *)
(* its sign; "nan".  Every operation rounds to nearest, ties to even.      *)
(***************************************************************************)
\* The exponents of the least subnormal, 2^-149, and of the largest finite
\* number, (2^24 - 1) * 2^104.
EMin == -149
EMax == 104

\* The width of the significand, with its leading bit.
ManBits == 24

Finite(s, m, e) == [kind |-> "fin", sign |-> s, man |-> m, exp |-> e]
Zero(s) == Finite(s, 0, EMin)
Inf(s) == [kind |-> "inf", sign |-> s, man |-> 0, exp |-> 0]
NaN == [kind |-> "nan", sign |-> 0, man |-> 0, exp |-> 0]

IsNaN(x) == x.kind = "nan"
IsInf(x) == x.kind = "inf"
IsZero(x) == x.kind = "fin" /\ x.man = 0

\* The element of a one-element set.  In Val({ e : v \in {x} }) the operand
\* x is evaluated once and e reads its value v.
Val(S) == CHOOSE v \in S : TRUE

Max(a, b) == IF a >= b THEN a ELSE b
Min(a, b) == IF a <= b THEN a ELSE b
Xor(s, t) == (s + t) % 2

\* The number of bits of m, when it is at most n.
RECURSIVE BitLenFrom(_, _)
BitLenFrom(m, n) ==
    IF n = 0 \/ m >= 2^(n - 1) THEN n ELSE BitLenFrom(m, n - 1)

\* The number of bits of m, 0 <= m < 2^30.
BitLen(m) == BitLenFrom(m, 30)

\* m * 2^e, m < 2^24, exactly: the significand moved up as far as the
\* exponent range allows; inf beyond the range.
PackExact(s, m, e) ==
    LET l == Max(0, Min(ManBits - BitLen(m), e - EMin))
    IN  IF e - l > EMax THEN Inf(s) ELSE Finite(s, m * 2^l, e - l)

\* m * 2^e for 0 < m < 2^30, the last sh > 0 bits rounded away; sticky
\* tells of a nonzero remainder below m.
PackShift(s, m, e, sh, sticky) ==
    LET q == m \div 2^sh
        r == m % 2^sh
        half == 2^(sh - 1)
        up == r > half \/ (r = half /\ (sticky \/ q % 2 = 1))
        q1 == IF up THEN q + 1 ELSE q
    IN  IF q1 = 2^ManBits THEN PackExact(s, 2^(ManBits - 1), e + sh + 1)
        ELSE PackExact(s, q1, e + sh)

\* The float32 nearest to (-1)^s * (m + f) * 2^e, 0 <= m < 2^30, where
\* 0 < f < 1 when sticky and f = 0 otherwise.
PackValues(s, m, e, sticky) ==
    IF m = 0 THEN Zero(s)
    ELSE LET n == BitLen(m)
             sh == Max(n - ManBits, EMin - e)
         IN  IF sh <= 0 THEN PackExact(s, m, e)
             ELSE IF sh > n THEN Zero(s)
             ELSE PackShift(s, m, e, sh, sticky)

Pack(s, m, e, sticky) ==
    Val({ PackValues(s, mv, ev, sticky) : mv \in {m}, ev \in {e} })

\* A finite nonzero number with its significand at full width, the
\* exponent below EMin for a subnormal.
Norm(x) ==
    LET l == ManBits - BitLenFrom(x.man, ManBits)
    IN  [man |-> x.man * 2^l, exp |-> x.exp - l]

NegValue(x) == IF IsNaN(x) THEN NaN ELSE [x EXCEPT !.sign = 1 - x.sign]

\* -x.
FNeg(x) == Val({ NegValue(a) : a \in {x} })

\* The sum of two finite nonzero numbers, a the one of larger magnitude
\* order: both significands with three more bits, b's moved down to a's
\* exponent.
AddOrdered(a, b) ==
    LET d == a.exp - b.exp
        am == a.man * 8
        bfull == b.man * 8
        bm == IF d >= 27 THEN 0 ELSE bfull \div 2^d
        sticky == IF d >= 27 THEN TRUE ELSE bfull % 2^d # 0
        diff == am - bm - (IF sticky THEN 1 ELSE 0)
    IN  IF a.sign = b.sign THEN Pack(a.sign, am + bm, a.exp - 3, sticky)
        ELSE IF diff = 0 /\ ~sticky THEN Zero(0)
        ELSE Pack(a.sign, diff, a.exp - 3, sticky)

AddValues(x, y) ==
    IF IsNaN(x) \/ IsNaN(y) THEN NaN
    ELSE IF IsInf(x) /\ IsInf(y) THEN (IF x.sign = y.sign THEN x ELSE NaN)
    ELSE IF IsInf(x) THEN x
    ELSE IF IsInf(y) THEN y
    ELSE IF IsZero(x) /\ IsZero(y)
         THEN Zero(IF x.sign = y.sign THEN x.sign ELSE 0)
    ELSE IF IsZero(x) THEN y
    ELSE IF IsZero(y) THEN x
    ELSE IF x.exp < y.exp \/ (x.exp = y.exp /\ x.man < y.man)
         THEN AddOrdered(y, x)
    ELSE AddOrdered(x, y)

\* x + y.
FAdd(x, y) == Val({ AddValues(a, b) : a \in {x}, b \in {y} })

\* x - y.
FSub(x, y) == FAdd(x, FNeg(y))

\* The product of two full-width significands, <<high 24 bits.., low 24
\* bits>>, from their 12-bit halves.
WideProduct(a, b) ==
    LET a1 == a \div 4096
        a0 == a % 4096
        b1 == b \div 4096
        b0 == b % 4096
        mid == a1 * b0 + a0 * b1
        t == a0 * b0 + (mid % 4096) * 4096
    IN  <<a1 * b1 + mid \div 4096 + t \div 2^24, t % 2^24>>

MulFin(x, y) ==
    LET a == Norm(x)
        b == Norm(y)
        p == WideProduct(a.man, b.man)
    IN  Pack(Xor(x.sign, y.sign), p[1] * 64 + p[2] \div 2^18,
             a.exp + b.exp + 18, p[2] % 2^18 # 0)

MulValues(x, y) ==
    IF IsNaN(x) \/ IsNaN(y) THEN NaN
    ELSE IF (IsInf(x) /\ IsZero(y)) \/ (IsZero(x) /\ IsInf(y)) THEN NaN
    ELSE IF IsInf(x) \/ IsInf(y) THEN Inf(Xor(x.sign, y.sign))
    ELSE IF IsZero(x) \/ IsZero(y) THEN Zero(Xor(x.sign, y.sign))
    ELSE MulFin(x, y)

\* x * y.
FMul(x, y) == Val({ MulValues(a, b) : a \in {x}, b \in {y} })

\* Seven more bits of a quotient: <<q, r>> with 128 * qr[2] = q' * b + r
\* appended to qr[1].
DivStep(qr, b) ==
    <<qr[1] * 128 + (qr[2] * 128) \div b, (qr[2] * 128) % b>>

DivFin(x, y) ==
    LET a == Norm(x)
        b == Norm(y)
        q0 == <<a.man \div b.man, a.man % b.man>>
        q4 == DivStep(DivStep(DivStep(DivStep(q0, b.man), b.man), b.man),
                      b.man)
    IN  Pack(Xor(x.sign, y.sign), q4[1], a.exp - b.exp - 28, q4[2] # 0)

DivValues(x, y) ==
    IF IsNaN(x) \/ IsNaN(y) THEN NaN
    ELSE IF (IsInf(x) /\ IsInf(y)) \/ (IsZero(x) /\ IsZero(y)) THEN NaN
    ELSE IF IsInf(x) \/ IsZero(y) THEN Inf(Xor(x.sign, y.sign))
    ELSE IF IsInf(y) \/ IsZero(x) THEN Zero(Xor(x.sign, y.sign))
    ELSE DivFin(x, y)

\* x / y.
FDiv(x, y) == Val({ DivValues(a, b) : a \in {x}, b \in {y} })

\* The square root of m * 4^13 bit pair by bit pair, from pair i down:
\* <<root, remainder>>.
RECURSIVE SqrtPairs(_, _, _, _)
SqrtPairs(m, i, root, rem) ==
    IF i < 0 THEN <<root, rem>>
    ELSE LET pair == IF i >= 13 THEN (m \div 4^(i - 13)) % 4 ELSE 0
             r == 4 * rem + pair
             trial == 4 * root + 1
         IN  IF r >= trial
             THEN Val({ SqrtPairs(m, i - 1, rt, rm) :
                          rt \in {2 * root + 1}, rm \in {r - trial} })
             ELSE Val({ SqrtPairs(m, i - 1, rt, rm) :
                          rt \in {2 * root}, rm \in {r} })

SqrtFin(x) ==
    LET a == Norm(x)
        odd == a.exp % 2 = 1
        m == IF odd THEN 2 * a.man ELSE a.man
        e == IF odd THEN a.exp - 1 ELSE a.exp
    IN  Val({ Pack(0, s[1], (e - 26) \div 2, s[2] # 0) :
                s \in {SqrtPairs(m, 25, 0, 0)} })

SqrtValue(x) ==
    IF IsNaN(x) THEN NaN
    ELSE IF IsZero(x) THEN x
    ELSE IF x.sign = 1 THEN NaN
    ELSE IF IsInf(x) THEN x
    ELSE SqrtFin(x)

\* The square root of x: torch.pow(x, 0.5).
FSqrt(x) == Val({ SqrtValue(a) : a \in {x} })

\* The integer n as a number, |n| < 2^30.
F(n) == IF n < 0 THEN Pack(1, -n, 0, FALSE) ELSE Pack(0, n, 0, FALSE)

\* The number a decimal literal p/q denotes.
Ratio(p, q) == FDiv(F(p), F(q))

\* x < y, x != 0 and x == y on float32.
Negative(d) ==
    \/ d.kind = "fin" /\ d.man # 0 /\ d.sign = 1
    \/ d.kind = "inf" /\ d.sign = 1

FLess(x, y) == Val({ Negative(d) : d \in {FSub(x, y)} })
FNonZero(x) == ~IsZero(x)
FEq(x, y) == ~IsNaN(x) /\ ~IsNaN(y) /\ (x = y \/ (IsZero(x) /\ IsZero(y)))

FOne == F(1)

(***************************************************************************)
(* float64, as far as the C library's expf computes in it.  A number is a  *)
(* record [sign, hi, lo, exp], (-1)^sign * (hi * 2^26 + lo) * 2^exp with   *)
(* 2^26 <= hi < 2^27 and lo < 2^26, or hi = lo = 0 for zero: expf meets no *)
(* subnormal, infinite or nan double.  Every operation rounds to nearest,  *)
(* ties to even.                                                           *)
(***************************************************************************)
Limb == 2^26

Double(s, hi, lo, e) == [sign |-> s, hi |-> hi, lo |-> lo, exp |-> e]
DZero(s) == Double(s, 0, 0, 0)
DIsZero(a) == a.hi = 0 /\ a.lo = 0
DNeg(a) == [a EXCEPT !.sign = 1 - a.sign]

\* (h * 2^26 + l + (g + f) / 2^26) * 2^e with 2^26 <= h < 2^27, l and g
\* below 2^26, 0 < f < 1 when sticky and f = 0 otherwise, rounded.
DRound(s, h, l, g, sticky, e) ==
    LET up == g > Limb \div 2
              \/ (g = Limb \div 2 /\ (sticky \/ l % 2 = 1))
    IN  IF ~up THEN Double(s, h, l, e)
        ELSE IF l + 1 < Limb THEN Double(s, h, l + 1, e)
        ELSE IF h + 1 < 2 * Limb THEN Double(s, h + 1, 0, e)
        ELSE Double(s, Limb, 0, e + 1)

\* The same for any h < 2^28, not all of h, l, g zero: the leading bit
\* moved to the top of h first.
RECURSIVE DNormValues(_, _, _, _, _, _)
DNormValues(s, h, l, g, sticky, e) ==
    IF h = 0 THEN DNormValues(s, l, g, 0, sticky, e - 26)
    ELSE IF h >= 2 * Limb
    THEN DRound(s, h \div 2, (h % 2) * (Limb \div 2) + l \div 2,
                (l % 2) * (Limb \div 2) + g \div 2,
                sticky \/ g % 2 = 1, e + 1)
    ELSE LET up == 27 - BitLen(h)
             down == 2^(26 - up)
         IN  DRound(s, h * 2^up + l \div down,
                    (l % down) * 2^up + g \div down,
                    (g % down) * 2^up, sticky, e - up)

DNorm(s, h, l, g, sticky, e) ==
    Val({ IF hv = 0 /\ lv = 0 /\ gv = 0 THEN DZero(0)
          ELSE DNormValues(s, hv, lv, gv, sticky, e) :
            hv \in {h}, lv \in {l}, gv \in {g} })

\* The carries of the columns c[1..7] of a product in base 2^13 taken up:
\* the digits of columns 1 to 6 and what is left for column 7.
RECURSIVE Carried(_, _, _)
Carried(c, i, carry) ==
    IF i = 7 THEN <<c[7] + carry>>
    ELSE Val({ <<t % 8192>> \o Carried(c, i + 1, t \div 8192) :
                 t \in {c[i] + carry} })

\* a * b for nonzero a, b: the significands multiplied by their 13-bit
\* parts, the 106-bit product rounded.
DMulValues(a, b) ==
    LET a0 == a.lo % 8192
        a1 == a.lo \div 8192
        a2 == a.hi % 8192
        a3 == a.hi \div 8192
        b0 == b.lo % 8192
        b1 == b.lo \div 8192
        b2 == b.hi % 8192
        b3 == b.hi \div 8192
        d == Carried(<<a0 * b0,
                       a0 * b1 + a1 * b0,
                       a0 * b2 + a1 * b1 + a2 * b0,
                       a0 * b3 + a1 * b2 + a2 * b1 + a3 * b0,
                       a1 * b3 + a2 * b2 + a3 * b1,
                       a2 * b3 + a3 * b2,
                       a3 * b3>>, 1, 0)
    IN  Val({ DNorm(Xor(a.sign, b.sign), dv[7], dv[6] * 8192 + dv[5],
                    dv[4] * 8192 + dv[3], dv[2] # 0 \/ dv[1] # 0,
                    a.exp + b.exp + 52) : dv \in {d} })

\* a * b.
DMul(x, y) ==
    Val({ IF DIsZero(a) \/ DIsZero(b) THEN DZero(Xor(a.sign, b.sign))
          ELSE DMulValues(a, b) : a \in {x}, b \in {y} })

\* |a| >= |b|, for a and b not zero.
DNotLess(a, b) ==
    \/ a.exp > b.exp
    \/ a.exp = b.exp /\ (a.hi > b.hi \/ (a.hi = b.hi /\ a.lo >= b.lo))

\* The significand of a moved down by d >= 0 bits: <<h, l, g, sticky>>,
\* g the 26 bits below the significand's and sticky telling of a one
\* below them.
DShifted(a, d) ==
    IF d >= 80 THEN <<0, 0, 0, TRUE>>
    ELSE LET r == 2^(d % 26)
             up == Limb \div r
             h == a.hi \div r
             l == (a.hi % r) * up + a.lo \div r
             g == (a.lo % r) * up
         IN  IF d < 26 THEN <<h, l, g, FALSE>>
             ELSE IF d < 52 THEN <<0, h, l, g # 0>>
             ELSE IF d < 78 THEN <<0, 0, h, l # 0 \/ g # 0>>
             ELSE <<0, 0, 0, TRUE>>

\* b + a for |b| >= |a| > 0: a aligned to b, added or subtracted limb by
\* limb, the carries (or borrows) taken up.
DAddOrdered(b, a) ==
    Val({ LET sgn == IF a.sign = b.sign THEN 1 ELSE -1
              g == sgn * m[3] - (IF sgn = -1 /\ m[4] THEN 1 ELSE 0)
              l == b.lo + sgn * m[2] + g \div Limb
              h == b.hi + sgn * m[1] + l \div Limb
          IN  DNorm(b.sign, h, l % Limb, g % Limb, m[4], b.exp) :
            m \in {DShifted(a, b.exp - a.exp)} })

DAddValues(a, b) ==
    IF DIsZero(a) /\ DIsZero(b) THEN DZero(a.sign * b.sign)
    ELSE IF DIsZero(a) THEN b
    ELSE IF DIsZero(b) THEN a
    ELSE IF DNotLess(a, b) THEN DAddOrdered(a, b)
    ELSE DAddOrdered(b, a)

\* x + y and x - y.
DAdd(x, y) == Val({ DAddValues(a, b) : a \in {x}, b \in {y} })
DSub(x, y) == DAdd(x, DNeg(y))

\* (double) x, for a finite float32 x.
DFromFloat(x) ==
    IF IsZero(x) THEN DZero(x.sign)
    ELSE Val({ Double(x.sign, n.man * 8, 0, n.exp - 29) : n \in {Norm(x)} })

\* (float) y.
DToFloat(y) ==
    IF DIsZero(y) THEN Zero(y.sign)
    ELSE Pack(y.sign, y.hi * 8 + y.lo \div 2^23, y.exp + 23,
              y.lo % 2^23 # 0)

(***************************************************************************)
(* The C library's expf (glibc, sysdeps/ieee754/flt-32/e_expf.c), which    *)
(* torch.exp calls for a float32: exp(x) = 2^(k/N) * 2^(r/N) with          *)
(* x * N / ln(2) = k + r, 2^(k/N) from a table and 2^(r/N) from a          *)
(* polynomial, all in float64.                                             *)
(***************************************************************************)
\* N = 2^EXP2F_TABLE_BITS.
TableSize == 32

\* invln2_scaled = 0x1.71547652b82fep+0 * N.
InvLn2N == Double(0, 96817625, 19628798, -47)

\* shift = 0x1.8p+52.
ExpShift == Double(0, 100663296, 0, 0)

\* poly_scaled: 0x1.c6af84b912394p-5 / N^3, 0x1.ebfce50fac4f3p-3 / N^2 and
\* 0x1.62e42ff0c52d6p-1 / N.
Poly0 == Double(0, 119193106, 59843476, -72)
Poly1 == Double(0, 128971668, 16434419, -65)
Poly2 == Double(0, 93032639, 51139286, -58)

DOne == Double(0, Limb, 0, -52)

\* tab: the significand <<hi, lo>> of 2^(i/N) for i = 0, ..., N - 1.
ExpTab ==
    << <<67108864, 0>>, <<68578356, 51742068>>, <<70080027, 16353551>>,
       <<71614580, 1203025>>, <<73182735, 8212859>>, <<74785228, 23640490>>,
       <<76422811, 41247288>>, <<78096253, 18865889>>,
       <<79806338, 36812565>>, <<81553869, 54176203>>,
       <<83339667, 1192994>>, <<85164568, 6392109>>, <<87029429, 20326951>>,
       <<88935125, 43863938>>, <<90882551, 21517353>>,
       <<92872620, 3822981>>, <<94906265, 41892813>>,
       <<96984442, 15490932>>, <<99108124, 65732999>>,
       <<101278310, 21810707>>, <<103496016, 36348123>>,
       <<105762284, 13485541>>, <<108078176, 44298384>>,
       <<110444780, 37627229>>, <<112863206, 22729645>>,
       <<115334588, 50028103>>, <<117860087, 25514652>>,
       <<120440887, 15700073>>, <<123078199, 16491655>>,
       <<125773260, 58432351>>, <<128527336, 44339418>>,
       <<131341718, 57558336>> >>

\* x > log(0x1p128) overflows and x < log(0x1p-150) underflows: the float32
\* 0x1.62e42ep6 and 0x1.9fe368p6.
ExpOverflow == Finite(0, 11629079, -17)
ExpUnderflow == Finite(1, 13627828, -17)

\* s = 2^(k/N): asdouble(T[ki % N] + (ki << 52 - EXP2F_TABLE_BITS)), ki
\* the bits of kd = z + shift, whose significand ends in k.
ExpScale(kd) ==
    LET k == (kd.hi - ExpShift.hi) * Limb + kd.lo
        t == ExpTab[(kd.lo % TableSize) + 1]
    IN  Double(0, t[1], t[2], (k \div TableSize) - 52)

\* s * (C0 * r^3 + C1 * r^2 + C2 * r + 1), as expf orders it:
\* z = C0 * r + C1, r2 = r * r, y = C2 * r + 1, y = z * r2 + y, y = y * s.
ExpPoly(r, s) ==
    Val({ DMul(DAdd(DMul(z, r2), y), s) :
            z \in {DAdd(DMul(Poly0, r), Poly1)},
            r2 \in {DMul(r, r)},
            y \in {DAdd(DMul(Poly2, r), DOne)} })

\* z = InvLn2N * xd, kd = z + shift, then kd - shift the integer nearest to
\* z and r = z - kd.
ExpReduced(z) ==
    Val({ ExpPoly(DSub(z, DSub(kd, ExpShift)), ExpScale(kd)) :
            kd \in {DAdd(z, ExpShift)} })

\* expf(x).
ExpValue(x) ==
    IF IsNaN(x) THEN NaN
    ELSE IF IsInf(x) THEN (IF x.sign = 0 THEN x ELSE Zero(0))
    ELSE IF FLess(ExpOverflow, x) THEN Inf(0)
    ELSE IF FLess(x, ExpUnderflow) THEN Zero(0)
    ELSE DToFloat(Val({ ExpReduced(z) :
                          z \in {DMul(InvLn2N, DFromFloat(x))} }))

\* torch.exp on one element, where it calls expf.
FExp(x) == Val({ ExpValue(a) : a \in {x} })

\* The float32 next below and next above a finite y >= 0.
Pred(y) ==
    IF y.man = 2^(ManBits - 1) /\ y.exp > EMin
    THEN Finite(0, 2^ManBits - 1, y.exp - 1)
    ELSE PackExact(0, y.man - 1, y.exp)
Succ(y) == Pack(0, y.man + 1, y.exp, FALSE)

\* torch.exp(x): what the library the build links may return.  The C
\* library's expf and the vectorized exp of the tensor library differ in
\* the last bit, so the result is any float32 within one unit in the last
\* place of expf's value; exp(+-0), and exp of an infinity or a nan, are
\* the same everywhere.
ExpOutcomes(x) ==
    Val({ IF y.kind # "fin" \/ x.kind # "fin" \/ IsZero(x) THEN {y}
          ELSE IF IsZero(y) THEN {y, Succ(y)}
          ELSE {Pred(y), y, Succ(y)} : y \in {FExp(x)} })

\* The library's exp on the arguments X, as a table: one of the outcomes
\* for each argument, and what the table known has for an argument it
\* already holds (the library is a function).
RECURSIVE ExpTables(_, _)
ExpTables(X, known) ==
    IF X = {} THEN {<<>>}
    ELSE LET x == CHOOSE a \in X : TRUE
         IN  { (a :> v) @@ t :
                 a \in {x},
                 v \in IF x \in DOMAIN known THEN {known[x]}
                       ELSE ExpOutcomes(x),
                 t \in ExpTables(X \ {x}, known) }

\* The sum of a tensor, element after element.
RECURSIVE FSumFrom(_, _, _)
FSumFrom(s, i, acc) ==
    IF i > Len(s) THEN acc
    ELSE Val({ FSumFrom(s, i + 1, a) : a \in {FAdd(acc, s[i])} })

\* torch.mean of a tensor: its sum over its length.
FMean(s) ==
    Val({ FDiv(FSumFrom(t, 1, Zero(0)), F(Len(t))) : t \in {s} })

(***************************************************************************)
(* Python floats.  A value of the config and a literal of the source is a  *)
(* Python float, a double.  The source compares such a value with 0.0,     *)
(* multiplies it by the Python float 0.0, or hands it to a float32 tensor  *)
(* operation, which takes it as a float32.  For these a double is its      *)
(* float32 image f32 with its place in the float32 range: "float32" when   *)
(* the image keeps it apart from zero and from the infinities, "below"     *)
(* when it is not zero and its image is, "above" when it is finite and     *)
(* its image is not.                                                       *)
(***************************************************************************)
PyFloat(v) == [f32 |-> v, range |-> "float32"]
Underflowing(s) == [f32 |-> Zero(s), range |-> "below"]
Overflowing(s) == [f32 |-> Inf(s), range |-> "above"]

IsPyFloat(x) == "range" \in DOMAIN x

\* The Python float as a tensor operation takes it.
ToF32(d) == d.f32

\* d != 0.0 and d > 0.0.
PyNonZero(d) == d.range = "below" \/ FNonZero(d.f32)
PyPositive(d) ==
    \/ d.range = "below" /\ d.f32.sign = 0
    \/ d.range # "below" /\ FLess(Zero(0), d.f32)

\* d * z for two Python floats, z one of the zeros.
PyMul(d, z) ==
    IF d.range = "above" \/ d.f32.kind = "fin"
    THEN PyFloat(Zero(Xor(d.f32.sign, z.f32.sign)))
    ELSE PyFloat(NaN)

\* c * x for a Python float c and x a tensor's element or a Python float.
Times(c, x) == IF IsPyFloat(x) THEN ToF32(PyMul(c, x)) ELSE FMul(ToF32(c), x)

(***************************************************************************)
(* Bounds and inputs.                                                      *)
(***************************************************************************)
\* The longest train batch and the number of loss calls of the training
\* loop (the constructor's call on the dummy batch comes on top).
MaxLen == 2
MaxCalls == 2

\* The literal 1e-8 of line 83 and the literal 0.5 of line 86, as the
\* tensor operations take them.
Eps == Ratio(1, 100000000)
Half == Ratio(1, 2)

\* One transition with the model's outputs for it: the postprocessed
\* cumulative reward, the value estimate, the log-probability of the action
\* and the action distribution's log-std per action dimension.
Transition(advantages, vf, logp) ==
    [advantages |-> advantages, vf |-> vf, logp |-> logp,
     log_std |-> <<F(-1), Zero(0)>>]

\* A train batch of n transitions, by turns one with reward 2, value 1,
\* log-probability -1 and one with reward 4, value 1, log-probability -2.
TrainBatch(n) ==
    [i \in 1..n |->
        IF i % 2 = 1 THEN Transition(F(2), F(1), F(-1))
        ELSE Transition(F(4), F(1), F(-2))]

\* A reward of 2^67, about 1.5e20: finite in float32, its square is not.
BigReward == Finite(0, 2^(ManBits - 1), 44)

\* A train batch whose squared advantage overflows float32.
OverflowBatch == << Transition(BigReward, F(1), F(-1)) >>

Batches == { TrainBatch(n) : n \in 1..MaxLen } \cup {OverflowBatch}

\* The constructor's dummy batch: one transition of zero reward, with
\* whatever the freshly built value head returns for it.
DummyBatches ==
    { << Transition(Zero(0), v, F(-1)) >> : v \in {Ratio(1, 1000), F(1)} }

\* The policy's config, the keys the loss and the statistics read: beta,
\* the start and the update rate of the moving average, vf_coeff and
\* bc_logstd_coeff.
Config(beta, start, rate, vf_coeff, bc_logstd_coeff) ==
    [beta |-> beta,
     moving_average_sqd_adv_norm_start |-> start,
     moving_average_sqd_adv_norm_update_rate |-> rate,
     vf_coeff |-> vf_coeff,
     bc_logstd_coeff |-> bc_logstd_coeff]

\* The Python floats 0.0, 1.0 and 0.1, and three that leave the float32
\* range: 1e-46, 1e39 and -1e39.
PyZero == PyFloat(Zero(0))
PyOne == PyFloat(F(1))
PyTenth == PyFloat(Ratio(1, 10))
PyTiny == Underflowing(0)
PyHuge == Overflowing(0)
PyHugeNegative == Overflowing(1)

\* Configs the framework admits: beta >= 0, a start >= 0, a rate in (0, 1].
Configs ==
    { Config(PyZero, PyOne, PyTenth, PyOne, PyHugeNegative),
      Config(PyZero, PyZero, PyOne, PyHuge, PyOne),
      Config(PyOne, PyOne, PyTenth, PyOne, PyZero),
      Config(PyOne, PyZero, PyTenth, PyOne, PyOne),
      Config(PyTiny, PyOne, PyOne, PyOne, PyTiny) }

\* Configs with a negative start, which nothing in the policy rejects.
NegativeStartConfigs ==
    { Config(PyOne, PyFloat(F(-1)), PyTenth, PyOne, PyZero),
      Config(PyTiny, PyFloat(F(-1)), PyOne, PyOne, PyOne) }

(***************************************************************************)
(* The policy object.  self maps the attributes that are set to their      *)
(* values: an attribute never assigned is not in DOMAIN self.  A tensor of *)
(* shape [1] is a one-element sequence, a 0-dim tensor its value.          *)
(***************************************************************************)
VARIABLES pc, self, ncalls, last, prev, stats

vars == <<pc, self, ncalls, last, prev, stats>>

MAVG == "_moving_average_sqd_adv_norm"

\* The mapping with no key.
Empty == [k \in {} |-> 0]

MergeValues(f, g) ==
    [k \in DOMAIN f \cup DOMAIN g |-> IF k \in DOMAIN g THEN g[k] ELSE f[k]]

\* The mapping f with the keys of g set to g's values.
Merge(f, g) == Val({ MergeValues(a, b) : a \in {f}, b \in {g} })

\* The record of a loss call: its batch, the moving average before it,
\* the library's exp on the call's arguments, the weights it computed, the
\* branch it took, what it returned and the object's attributes after it.
NoCall ==
    [called |-> FALSE, batch |-> <<>>, before |-> <<>>, exp |-> Empty,
     exp_advs |-> <<>>, branch |-> "none", ret |-> NaN, after |-> Empty]

\* A constructor that allocates the moving average whatever beta is.
AllocCond_Always(config) == TRUE

\* Line 40: the constructor's test; line 65: the loss's; line 117: the
\* statistics'.
AllocCond(config) == PyNonZero(config.beta)
LossBranch(config) == PyNonZero(config.beta)
StatsBranch(config) == PyNonZero(config.beta)

\* Lines 66-68: adv = cumulative_rewards - state_values.
Adv(batch) ==
    [i \in 1..Len(batch) |-> FSub(batch[i].advantages, batch[i].vf)]

\* Line 69: torch.mean(torch.pow(adv, 2.0)).
AdvSquaredMean(adv) ==
    FMean([i \in 1..Len(adv) |-> FMul(adv[i], adv[i])])

\* The variance of a tensor.
Variance(s) ==
    LET mu == FMean(s)
    IN  FMean([i \in 1..Len(s) |->
            FMul(FSub(s[i], mu), FSub(s[i], mu))])

\* Lines 71-72: 1 - Var(y - pred) / Var(y).
explained_variance(y, pred) ==
    LET y_var == Variance(y)
        diff_var == Variance([i \in 1..Len(y) |-> FSub(y[i], pred[i])])
    IN  FSub(FOne, FDiv(diff_var, y_var))

\* The update applied twice in one call.
UpdatedMovingAverage_Twice(mavg, rate, adv_squared_mean) ==
    LET once == FAdd(mavg, Times(rate, FSub(adv_squared_mean, mavg)))
    IN  FAdd(once, Times(rate, FSub(adv_squared_mean, once)))

\* The update with the difference taken the wrong way round.
UpdatedMovingAverage_SignSlip(mavg, rate, adv_squared_mean) ==
    FAdd(mavg, Times(rate, FSub(mavg, adv_squared_mean)))

\* The update without the decay of the old average.
UpdatedMovingAverage_NoDecay(mavg, rate, adv_squared_mean) ==
    FAdd(mavg, Times(rate, adv_squared_mean))

\* Lines 76-79: the in-place add_ of rate * (adv_squared_mean - avg).
UpdatedMovingAverage(mavg, rate, adv_squared_mean) ==
    FAdd(mavg, Times(rate, FSub(adv_squared_mean, mavg)))

\* The epsilon under the root.
Denominator_EpsInside(mavg) == FSqrt(FAdd(Eps, mavg))

\* Line 83: 1e-8 + torch.pow(avg, 0.5).
Denominator(mavg) == FAdd(Eps, FSqrt(mavg))

\* Lines 65-79 and 86, the branch beta != 0 but for its weights: adv, the
\* explained variance, the updated average (before is the one the call
\* found) and the value loss.
AdvantageEstimate(config, mavg, batch) ==
    LET adv == Adv(batch)
        adv_squared_mean == AdvSquaredMean(adv)
    IN  [adv |-> adv @@ <<>>,
         before |-> mavg,
         mavg |-> UpdatedMovingAverage(
                      mavg, config.moving_average_sqd_adv_norm_update_rate,
                      adv_squared_mean),
         v_loss |-> FMul(Half, adv_squared_mean),
         explained_variance |->
             explained_variance([i \in 1..Len(batch) |-> batch[i].advantages],
                                [i \in 1..Len(batch) |-> batch[i].vf])]

\* Lines 82-83: beta * (adv / denominator) for one transition, the argument
\* of torch.exp.
ExpArg(beta, a, denominator) == FMul(ToF32(beta), FDiv(a, denominator))

\* Lines 82-83 for the batch: the arguments from the average as the call
\* updated it.
ExpArgs(beta, w) ==
    Val({ [i \in 1..Len(w.adv) |-> ExpArg(beta, w.adv[i], d)] @@ <<>> :
            d \in {Denominator(w.mavg)} })

\* The weights computed from the average the previous call left, not from
\* the updated one.
ExpAdvs_UseThenUpdate(beta, w, args, exp) ==
    [i \in 1..Len(w.adv) |->
        FExp(ExpArg(beta, w.adv[i], Denominator(w.before)))] @@ <<>>

\* Lines 81-84: the weights, the library's exp of the arguments.
ExpAdvs(beta, w, args, exp) == [i \in 1..Len(args) |-> exp[args[i]]] @@ <<>>

\* A value loss computed in the cloning branch too.
LossBehavioralCloning_ValueLoss(batch) ==
    [exp_advs |-> [i \in 1..Len(batch) |-> FOne],
     v_loss |-> FMul(Half, AdvSquaredMean(Adv(batch)))]

\* Lines 87-91, the branch beta == 0: weights of 1.0 and no value loss.
LossBehavioralCloning(batch) ==
    [exp_advs |-> [i \in 1..Len(batch) |-> FOne], v_loss |-> PyZero]

\* Lines 98-102: the mean log-std of each transition, or the Python float
\* 0.0 for each.
Logstds(logstd_coeff, batch) ==
    [i \in 1..Len(batch) |->
        IF PyPositive(logstd_coeff) THEN FMean(batch[i].log_std)
        ELSE PyZero]

\* Line 104, within the mean: logprobs + logstd_coeff * logstds.
LogTerms(batch, logstd_coeff) ==
    LET logstds == Logstds(logstd_coeff, batch)
    IN  [i \in 1..Len(batch) |->
            FAdd(batch[i].logp, Times(logstd_coeff, logstds[i]))] @@ <<>>

\* Line 104: -mean(exp_advs * (logprobs + logstd_coeff * logstds)).
PolicyLoss(exp_advs, terms) ==
    FNeg(FMean([i \in 1..Len(terms) |-> FMul(exp_advs[i], terms[i])]))

\* Line 107: p_loss + vf_coeff * v_loss.
TotalLoss(p_loss, vf_coeff, v_loss) == FAdd(p_loss, Times(vf_coeff, v_loss))

\* The moving average tensor of the object, <<>> when it has none.
MavgOf(obj) == IF MAVG \in DOMAIN obj THEN obj[MAVG] ELSE <<>>

\* Lines 104-109: the policy loss and the total loss, set on the object
\* with what the branch set; the call returns the total loss.  The record
\* of the call.
LossReturn(obj, batch, branch, set, exp, exp_advs, terms) ==
    Val({ Val({
        [called |-> TRUE, batch |-> batch, before |-> MavgOf(obj),
         exp |-> exp, exp_advs |-> exp_advs, branch |-> branch,
         ret |-> total_loss,
         after |-> Merge(obj, Merge(set, [p_loss |-> p_loss,
                                          total_loss |-> total_loss]))] :
      total_loss \in {TotalLoss(p_loss, obj.config.vf_coeff, set.v_loss)} }) :
      p_loss \in {PolicyLoss(exp_advs, terms)} })

\* The loss in the branch beta != 0, w what lines 65-79 and 86 computed:
\* the records of the call, one for each table of the library's exp on the
\* call's arguments that agrees with the table known.
LossAdvantageWeighted(obj, batch, w, terms, known) ==
    UNION {
      { LossReturn(obj, batch, "aw",
            (MAVG :> <<w.mavg>>)
                @@ [explained_variance |-> w.explained_variance,
                    v_loss |-> w.v_loss],
            exp, ExpAdvs(obj.config.beta, w, args, exp), terms) :
          exp \in ExpTables({ args[i] : i \in 1..Len(args) }, known) } :
      args \in {ExpArgs(obj.config.beta, w)} }

\* Lines 52-109: loss(model, dist_class, train_batch) on the object obj.
\* The records the call can leave, the table known being what the
\* library's exp returned before.
LossCall(obj, batch, known) ==
    UNION {
      IF LossBranch(obj.config)
      THEN UNION { LossAdvantageWeighted(obj, batch, w, terms, known) :
                     w \in {AdvantageEstimate(obj.config, obj[MAVG][1],
                                              batch)} }
      ELSE { LossReturn(obj, batch, "bc", [v_loss |-> w.v_loss], Empty,
                        w.exp_advs, terms) :
               w \in {LossBehavioralCloning(batch)} } :
      terms \in {LogTerms(batch, obj.config.bc_logstd_coeff)} }

\* Line 49: the one loss call on the dummy batch that ends construction.
_initialize_loss_from_dummy_batch(obj, dummy_batch) ==
    LossCall(obj, dummy_batch, Empty)

\* The tensor an attribute of the object holds, as an object: the loss
\* updates the moving average's tensor in place (line 77), so whoever holds
\* that tensor, or an array on its storage, reads what the attribute holds
\* now.  The other attributes are set to new tensors by every loss call
\* (lines 72, 86, 104, 107) and a tensor once set is never written: they
\* are their values.
Tensor(attr) == [storage |-> attr]
IsTensor(x) == "storage" \in DOMAIN x

\* An array of its own, holding the data v.
Array(v) == [array |-> v]

\* What a mapping's entry x reads, the object being obj.
Read(x, obj) ==
    IF IsTensor(x) THEN obj[x.storage]
    ELSE IF "array" \in DOMAIN x THEN x.array
    ELSE x

\* vf_loss reported outside the test of beta.
Stats_VfLossAlways(obj) ==
    LET base == [policy_loss |-> obj.p_loss, total_loss |-> obj.total_loss,
                 vf_loss |-> obj.v_loss]
    IN  IF StatsBranch(obj.config)
        THEN Merge(base,
                   [moving_average_sqd_adv_norm |-> Tensor(MAVG),
                    vf_explained_var |-> obj.explained_variance])
        ELSE base

\* The policy loss's tensor in the mapping as one the loss writes in place,
\* as line 77 writes the moving average's.
Stats_LossInPlace(obj) ==
    LET base == [policy_loss |-> Tensor("p_loss"),
                 total_loss |-> obj.total_loss]
    IN  IF StatsBranch(obj.config)
        THEN Merge(base,
                   [moving_average_sqd_adv_norm |-> Tensor(MAVG),
                    vf_explained_var |-> obj.explained_variance,
                    vf_loss |-> obj.v_loss])
        ELSE base

\* Lines 113-120: the mapping stats_fn builds; line 119 puts the moving
\* average's tensor itself in it.
Stats(obj) ==
    LET base == [policy_loss |-> obj.p_loss, total_loss |-> obj.total_loss]
    IN  IF StatsBranch(obj.config)
        THEN Merge(base,
                   [moving_average_sqd_adv_norm |-> Tensor(MAVG),
                    vf_explained_var |-> obj.explained_variance,
                    vf_loss |-> obj.v_loss])
        ELSE base

\* What the conversion of line 121 may make of a tensor: an array of its
\* own ("copy"), or an array on the tensor's storage ("view").  The source
\* of convert_to_numpy is not at hand and decides neither.
Conversions == {"copy", "view"}

\* Line 121: the mapping with its tensors converted.
convert_to_numpy(x, obj, conversion) ==
    [k \in DOMAIN x |->
        IF IsTensor(x[k]) /\ conversion = "copy" THEN Array(Read(x[k], obj))
        ELSE x[k]]

(***************************************************************************)
(* The state machine.                                                      *)
(***************************************************************************)
InitWith(configs) ==
    /\ pc = "new"
    /\ self \in { [config |-> c] : c \in configs }
    /\ ncalls = 0
    /\ last = NoCall
    /\ prev = NoCall
    /\ stats = Empty

Init == InitWith(Configs)

InitAnyStart == InitWith(Configs \cup NegativeStartConfigs)

\* Lines 23-49: __init__.  The moving average is allocated when beta != 0
\* and the loss is run once on the dummy batch.
__init__ ==
    /\ pc = "new"
    /\ \E dummy_batch \in DummyBatches :
          \E obj \in { IF AllocCond(self.config)
                        THEN Merge(self, (MAVG :> <<ToF32(
                            self.config.moving_average_sqd_adv_norm_start)>>))
                        ELSE self } :
             \E call \in _initialize_loss_from_dummy_batch(obj, dummy_batch) :
                /\ self' = call.after
                /\ last' = call
    /\ pc' = "ready"
    /\ UNCHANGED <<ncalls, prev, stats>>

\* Lines 52-109: one loss call of the training loop.
loss ==
    /\ pc = "ready"
    /\ ncalls < MaxCalls
    /\ \E train_batch \in Batches :
          \E call \in LossCall(self, train_batch, last.exp) :
             /\ self' = call.after
             /\ last' = call
    /\ prev' = last
    /\ ncalls' = ncalls + 1
    /\ UNCHANGED <<pc, stats>>

\* Lines 112-121: stats_fn; the mapping it returns is kept in stats, the
\* caller's.  No operation of the policy writes to it.
stats_fn ==
    /\ pc = "ready"
    /\ \E conversion \in Conversions :
          stats' = convert_to_numpy(Stats(self), self, conversion)
    /\ UNCHANGED <<pc, self, ncalls, last, prev>>

Next == __init__ \/ loss \/ stats_fn

Spec == Init /\ [][Next]_vars

SpecAnyStart == InitAnyStart /\ [][Next]_vars


(***************************************************************************)
(* Properties.                                                             *)
(***************************************************************************)
AdvantageWeighted == PyNonZero(self.config.beta)
Start == ToF32(self.config.moving_average_sqd_adv_norm_start)
Rate == ToF32(self.config.moving_average_sqd_adv_norm_update_rate)
Allocated == MAVG \in DOMAIN self
Returned == DOMAIN stats # {}
NonNegative(x) == ~IsNaN(x) /\ (x.sign = 0 \/ IsZero(x))

\* The batch's mean squared residual between reward and value estimate.
TargetOf(batch) ==
    FMean([i \in 1..Len(batch) |->
        FMul(FSub(batch[i].advantages, batch[i].vf),
             FSub(batch[i].advantages, batch[i].vf))])

\* C1: with beta != 0 every loss call moves the moving average exactly once,
\* to old + rate * (mean((advantage - value)^2) - old), old being the value
\* the call before it left (the configured start for the first call); so n
\* calls apply the update n times.
C1_UpdateOncePerCall ==
    (last.called /\ AdvantageWeighted) =>
        LET old == last.before[1]
        IN  /\ self[MAVG] =
                  <<FAdd(old, FMul(Rate, FSub(TargetOf(last.batch), old)))>>
            /\ last.before = IF prev.called THEN prev.after[MAVG]
                             ELSE <<Start>>

\* The spec's scenario: start 1.0, rate 0.1, rewards [2, 4], values [1, 1],
\* the average at 1.0 before the call and at 1.4 after it.
C1_Witness ==
    /\ self.config.beta = PyOne /\ Start = F(1) /\ Rate = Ratio(1, 10)
    /\ last.batch = TrainBatch(2)
    /\ last.before = <<F(1)>>
    /\ prev.called
    /\ self[MAVG] = <<Ratio(14, 10)>>

\* The argument of exp for transition i of the last call's batch, the
\* moving average being m, and what exp may return for it.
ArgFrom(i, m) ==
    ExpArg(self.config.beta,
           FSub(last.batch[i].advantages, last.batch[i].vf), Denominator(m))
WeightsFrom(i, m) == ExpOutcomes(ArgFrom(i, m))

\* C2: within one loss call with beta != 0 the weights exp_advs are computed
\* from the moving average as updated by that call, never from the value
\* the previous call left: the library's exp was given the arguments made
\* from the updated average, those only, and the weights are its results.
C2_UpdateThenUse ==
    (last.called /\ AdvantageWeighted) =>
        LET d == Denominator(self[MAVG][1])
            args == [i \in 1..Len(last.batch) |->
                        ExpArg(self.config.beta,
                               FSub(last.batch[i].advantages,
                                    last.batch[i].vf), d)] @@ <<>>
        IN  /\ DOMAIN last.exp = { args[i] : i \in 1..Len(last.batch) }
            /\ \A i \in 1..Len(last.batch) :
                  last.exp_advs[i] = last.exp[args[i]]

\* A call whose weights differ with the order of update and use.
C2_Witness ==
    /\ last.called /\ AdvantageWeighted /\ ncalls >= 1
    /\ \E i \in 1..Len(last.batch) :
          /\ WeightsFrom(i, self[MAVG][1]) \cap WeightsFrom(i, last.before[1])
                = {}
          /\ last.exp_advs[i] \in WeightsFrom(i, self[MAVG][1])

\* C3: with beta == 0, after any loss and stats calls, the value loss is 0,
\* the total loss is the policy loss, and no moving average (nor explained
\* variance) is allocated or modified, by construction or by a loss call.
C3_BehavioralCloning ==
    (~AdvantageWeighted) =>
        /\ ~Allocated
        /\ "explained_variance" \notin DOMAIN self
        /\ last.called =>
              /\ self.v_loss = PyZero
              /\ FEq(self.total_loss, self.p_loss)
              /\ FEq(last.ret, self.p_loss)
              /\ last.before = <<>>
        /\ Returned => "moving_average_sqd_adv_norm" \notin DOMAIN stats

\* Cloning mode after construction, two loss calls and a stats call.
C3_Witness ==
    /\ ~AdvantageWeighted /\ ncalls >= 2 /\ Returned
    /\ FEq(self.total_loss, self.p_loss)
    /\ FLess(Zero(0), self.p_loss)

FiniteNonNegative(x) == x.kind = "fin" /\ (x.sign = 0 \/ IsZero(x))

C5_StatsKeys ==
    Returned =>
        DOMAIN stats =
            IF ~AdvantageWeighted
            THEN {"policy_loss", "total_loss"}
            ELSE {"policy_loss", "total_loss", "moving_average_sqd_adv_norm",
                  "vf_explained_var", "vf_loss"}

\* The five keys, returned after a loss call of the training loop.
C5_Witness ==
    /\ Returned /\ AdvantageWeighted /\ ncalls >= 1
    /\ Cardinality(DOMAIN stats) = 5

\* C6: the branch a loss call or a stats call takes always agrees with
\* whether the constructor allocated the moving average, and the
\* allocation never changes once the constructor has returned.
C6_ModeFixed ==
    [][ /\ last'.called => ((last'.branch = "aw") <=> Allocated')
        /\ Returned' =>
              (("moving_average_sqd_adv_norm" \in DOMAIN stats') <=> Allocated')
        /\ pc = "ready" => (Allocated' <=> Allocated) ]_vars

\* Both branches taken in the advantage-weighted mode, long after
\* construction.
C6_Witness ==
    /\ Allocated /\ ncalls >= 2 /\ last.branch = "aw"
    /\ Returned /\ "moving_average_sqd_adv_norm" \in DOMAIN stats

\* What exp may return for transition i of the last call, were the
\* epsilon under the root.
WeightEpsInside(i) ==
    ExpOutcomes(FMul(ToF32(self.config.beta),
        FDiv(FSub(last.batch[i].advantages, last.batch[i].vf),
             FSqrt(FAdd(Eps, self[MAVG][1])))))

\* C7 as stated: exp_advs[i] = exp(beta * adv[i] / sqrt(1e-8 + avg)), the
\* epsilon under the root, avg the updated moving average.
C7_EpsInsideRoot ==
    (last.called /\ AdvantageWeighted) =>
        \A i \in 1..Len(last.batch) : last.exp_advs[i] \in WeightEpsInside(i)

\* C7, amended: exp_advs[i] = exp(beta * adv[i] / (1e-8 + sqrt(avg))), the
\* epsilon added to the root, avg the updated moving average, exp the
\* library's.
C7_EpsOutsideRoot ==
    (last.called /\ AdvantageWeighted) =>
        LET root == FSqrt(self[MAVG][1])
            x == [i \in 1..Len(last.batch) |->
                    FMul(ToF32(self.config.beta),
                         FDiv(FSub(last.batch[i].advantages, last.batch[i].vf),
                              FAdd(Eps, root)))] @@ <<>>
        IN  \A i \in 1..Len(last.batch) :
                /\ x[i] \in DOMAIN last.exp
                /\ last.exp_advs[i] = last.exp[x[i]]
                /\ last.exp_advs[i].kind = "fin" =>
                      /\ last.exp_advs[i].sign = 0
                      /\ x[i].sign = 0 => ~FLess(last.exp_advs[i], FOne)
                      /\ x[i].sign = 1 => ~FLess(FOne, last.exp_advs[i])

\* A call on a small moving average, where the place of the epsilon shows
\* in the weight.
C7_Witness ==
    /\ last.called /\ AdvantageWeighted
    /\ \E i \in 1..Len(last.batch) :
          /\ last.exp_advs[i].kind = "fin"
          /\ last.exp_advs[i] \notin WeightEpsInside(i)

\* The last two loss calls had the same inputs, with beta != 0.
SameInputsTwice ==
    prev.called /\ last.called /\ AdvantageWeighted /\ last.batch = prev.batch

\* The last call returned the loss and left the attributes (hence the
\* statistics) of the call before it.
SameResult == last.ret = prev.ret /\ last.after = prev.after

\* C8 as stated: with beta != 0 the second of two successive loss calls on
\* the same inputs yields a result different from the first.
C8_SecondCallDiffers == SameInputsTwice => ~SameResult

\* C8, amended: the second call's result differs from the first's exactly
\* when the second call's update moved the moving average.  The update
\* moves it only towards the batch's mean squared advantage: when that is
\* finite and equals the average the first call left, the update adds zero
\* and the two results are the same.
C8_DiffersIffAverageMoved ==
    SameInputsTwice =>
        LET old == prev.after[MAVG][1]
            new == self[MAVG][1]
            target == TargetOf(last.batch)
        IN  /\ SameResult <=> (new = old)
            /\ FLess(old, new) => FLess(old, target)
            /\ FLess(new, old) => FLess(target, old)
            /\ (target = old /\ old.kind = "fin") => (new = old)

\* Two successive calls on the same batch, the second with another result.
C8_Witness == SameInputsTwice /\ ~SameResult /\ ncalls >= 2

\* C9: when the constructor returns with beta != 0 the moving average is
\* the configured start, so the first loss call of the training loop
\* starts from it.
C9_StartAfterConstruction ==
    (pc = "ready" /\ AdvantageWeighted) =>
        /\ ncalls = 0 => self[MAVG] = <<Start>>
        /\ ncalls = 1 => last.before = <<Start>>

\* What the mapping stats_fn returned reads under key k, now and after
\* the step.
StatsValue(k) == Read(stats[k], self)
StatsValueNext(k) == Read(stats'[k], self')

\* stats() assigns nothing and reports the values the most recent loss
\* call left, the updated moving average among them.
StatsReadOnly ==
    stats' # stats =>
        /\ self' = self /\ last' = last
        /\ StatsValueNext("policy_loss") = last.after.p_loss
        /\ StatsValueNext("total_loss") = last.after.total_loss
        /\ AdvantageWeighted =>
              /\ StatsValueNext("moving_average_sqd_adv_norm") = last.after[MAVG]
              /\ StatsValueNext("vf_loss") = last.after.v_loss
              /\ StatsValueNext("vf_explained_var")
                    = last.after.explained_variance

====
